---- MODULE Spec2Model ----
(***************************************************************************)
(* voxelify: a pixel image is turned into a voxel mesh (image_to_vertices), *)
(* described by a glTF root (create_gltf_root) and packed into a binary     *)
(* glTF container (create_glb).  Model of src/src/lib.rs and the pipeline   *)
(* of src/src/main.rs.                                                      *)
(*                                                                          *)
(* Numbers.  f32 values are modelled by integers: pixel coordinates and the *)
(* heights drawn here are small integers, which f32 represents exactly, and *)
(* a colour channel c/255.0 is kept as the pair <<c, 255>>.  usize byte     *)
(* counts can exceed TLC's 32-bit integers (the container limit is          *)
(* 2^32 - 1), so a usize is kept as two limbs <<hi, lo>> of value           *)
(* hi * 2^16 + lo with lo < 2^16; equal values have equal representations.  *)
(***************************************************************************)
EXTENDS Integers, Sequences, FiniteSets

\* ---------------------------------------------------------------- bounds
\* largest image width / height drawn
MaxDim == 3
\* largest number of pixels of an image drawn
MaxPixels == 4
\* heights drawn are 1..MaxHeight
MaxHeight == 2
\* serialized metadata lengths drawn are MaxJsonLen - 7 .. MaxJsonLen bytes
MaxJsonLen == 36
\* lengths of the caller-built vertex slices drawn: SliceBase - 1 .. SliceBase + 1
\* (36 * 119304646 = 2^32 - 40)
SliceBase == 119304646

\* ------------------------------------------------------------- usize values
Limb == 2 ^ 16

USize(n) == <<n \div Limb, n % Limb>>

\* a + b
UAdd(a, b) ==
    LET lo == a[2] + b[2]
    IN  <<a[1] + b[1] + (lo \div Limb), lo % Limb>>

\* n * k for a count n and a small factor k
UMul(n, k) ==
    LET lo == (n % Limb) * k
    IN  <<(n \div Limb) * k + (lo \div Limb), lo % Limb>>

\* a <= b
ULeq(a, b) == a[1] < b[1] \/ (a[1] = b[1] /\ a[2] <= b[2])

\* a % 4 (2^16 is a multiple of 4)
UMod4(a) == a[2] % 4

\* u32::MAX = 2^32 - 1
U32_MAX == <<Limb - 1, Limb - 1>>

\* usize -> u32 conversion of create_glb's `.try_into()?`: fails above u32::MAX
TryIntoU32Ok(a) == ULeq(a, U32_MAX)

\* ------------------------------------------------------------- pixels, faces
\* RGBA pixels of the decoded image: transparent black, opaque black,
\* opaque red, transparent blue
PixelKinds == { <<0, 0, 0, 0>>, <<0, 0, 0, 255>>, <<255, 0, 0, 255>>, <<0, 0, 255, 0>> }

\* Pixel::to_rgb : drops the alpha channel
to_rgb(p) == <<p[1], p[2], p[3]>>

Black == <<0, 0, 0>>

\* is_empty_pixel testing the red channel only
is_empty_pixel_red_only(pixel) == pixel[1] = 0

is_empty_pixel(pixel) == pixel = Black

get_pixel(img, px, py) == img.data[<<px, py>>]

Faces == {"Up", "Down", "Left", "Right", "Forward", "Back"}

\* one vertex record
Vertex(p, n, c) == [position |-> p, normal |-> n, color |-> c]

\* color[i] as f32 / 255.0
ChannelToF32(c) == <<c, 255>>

ColorOf(rgb) == <<ChannelToF32(rgb[1]), ChannelToF32(rgb[2]), ChannelToF32(rgb[3])>>

\* ------------------------------------------------------------- face tables
UpFace(p, h, c) ==
    LET n == <<0, 0, 1>> IN
    << Vertex(<<p[1],     p[2],     h>>, n, c),
       Vertex(<<p[1] + 1, p[2],     h>>, n, c),
       Vertex(<<p[1],     p[2] + 1, h>>, n, c),
       Vertex(<<p[1],     p[2] + 1, h>>, n, c),
       Vertex(<<p[1] + 1, p[2],     h>>, n, c),
       Vertex(<<p[1] + 1, p[2] + 1, h>>, n, c) >>

DownFace(p, h, c) ==
    LET n == <<0, 0, -1>> IN
    << Vertex(<<p[1],     p[2],     0>>, n, c),
       Vertex(<<p[1],     p[2] + 1, 0>>, n, c),
       Vertex(<<p[1] + 1, p[2],     0>>, n, c),
       Vertex(<<p[1],     p[2] + 1, 0>>, n, c),
       Vertex(<<p[1] + 1, p[2] + 1, 0>>, n, c),
       Vertex(<<p[1] + 1, p[2],     0>>, n, c) >>

ForwardFace(p, h, c) ==
    LET n == <<0, -1, 0>> IN
    << Vertex(<<p[1],     p[2], 0>>, n, c),
       Vertex(<<p[1] + 1, p[2], 0>>, n, c),
       Vertex(<<p[1],     p[2], h>>, n, c),
       Vertex(<<p[1],     p[2], h>>, n, c),
       Vertex(<<p[1] + 1, p[2], 0>>, n, c),
       Vertex(<<p[1] + 1, p[2], h>>, n, c) >>

BackFace(p, h, c) ==
    LET n == <<0, 1, 0>> IN
    << Vertex(<<p[1],     p[2] + 1, 0>>, n, c),
       Vertex(<<p[1],     p[2] + 1, h>>, n, c),
       Vertex(<<p[1] + 1, p[2] + 1, 0>>, n, c),
       Vertex(<<p[1] + 1, p[2] + 1, 0>>, n, c),
       Vertex(<<p[1],     p[2] + 1, h>>, n, c),
       Vertex(<<p[1] + 1, p[2] + 1, h>>, n, c) >>

LeftFace(p, h, c) ==
    LET n == <<-1, 0, 0>> IN
    << Vertex(<<p[1], p[2],     0>>, n, c),
       Vertex(<<p[1], p[2],     h>>, n, c),
       Vertex(<<p[1], p[2] + 1, 0>>, n, c),
       Vertex(<<p[1], p[2] + 1, 0>>, n, c),
       Vertex(<<p[1], p[2],     h>>, n, c),
       Vertex(<<p[1], p[2] + 1, h>>, n, c) >>

\* Right face with the first triangle's last two vertices exchanged
RightFaceFlipped(p, h, c) ==
    LET n == <<1, 0, 0>> IN
    << Vertex(<<p[1] + 1, p[2],     0>>, n, c),
       Vertex(<<p[1] + 1, p[2],     h>>, n, c),
       Vertex(<<p[1] + 1, p[2] + 1, 0>>, n, c),
       Vertex(<<p[1] + 1, p[2] + 1, 0>>, n, c),
       Vertex(<<p[1] + 1, p[2] + 1, h>>, n, c),
       Vertex(<<p[1] + 1, p[2],     h>>, n, c) >>

RightFace(p, h, c) ==
    LET n == <<1, 0, 0>> IN
    << Vertex(<<p[1] + 1, p[2],     0>>, n, c),
       Vertex(<<p[1] + 1, p[2] + 1, 0>>, n, c),
       Vertex(<<p[1] + 1, p[2],     h>>, n, c),
       Vertex(<<p[1] + 1, p[2] + 1, 0>>, n, c),
       Vertex(<<p[1] + 1, p[2] + 1, h>>, n, c),
       Vertex(<<p[1] + 1, p[2],     h>>, n, c) >>

create_pixel_verticies_face(pos, rgb, h, face) ==
    LET color == ColorOf(rgb) IN
    CASE face = "Up"      -> UpFace(pos, h, color)
      [] face = "Down"    -> DownFace(pos, h, color)
      [] face = "Forward" -> ForwardFace(pos, h, color)
      [] face = "Back"    -> BackFace(pos, h, color)
      [] face = "Left"    -> LeftFace(pos, h, color)
      [] face = "Right"   -> RightFace(pos, h, color)

\* ------------------------------------------------------------- face culling
\* x-axis arm of cull_faces: `match pos.x`
XFaces(img, pos) ==
    IF pos[1] = 0 THEN <<"Left">>
    ELSE IF pos[1] = img.width - 1 THEN <<"Right">>
    ELSE (IF is_empty_pixel(to_rgb(get_pixel(img, pos[1] + 1, pos[2])))
             THEN <<"Right">> ELSE << >>)
         \o
         (IF is_empty_pixel(to_rgb(get_pixel(img, pos[1] - 1, pos[2])))
             THEN <<"Left">> ELSE << >>)

\* y-axis arm of cull_faces: `match pos.y`
YFaces(img, pos) ==
    IF pos[2] = 0 THEN <<"Forward">>
    ELSE IF pos[2] = img.height - 1 THEN <<"Back">>
    ELSE (IF is_empty_pixel(to_rgb(get_pixel(img, pos[1], pos[2] + 1)))
             THEN <<"Back">> ELSE << >>)
         \o
         (IF is_empty_pixel(to_rgb(get_pixel(img, pos[1], pos[2] - 1)))
             THEN <<"Forward">> ELSE << >>)

\* cull_faces with the y-axis arm run before the x-axis arm
cull_faces_y_first(img, pos) == <<"Up", "Down">> \o YFaces(img, pos) \o XFaces(img, pos)

cull_faces(img, pos) == <<"Up", "Down">> \o XFaces(img, pos) \o YFaces(img, pos)

\* ------------------------------------------------------------- buffers
SizeOfF32 == 4

\* size_of::<Vertex>() : #[repr(C)] struct of three [f32; 3]
SizeOfVertex == 3 * (3 * SizeOfF32)

\* (n + 4) & !3
align_plus_four(n) == (n + 4) - ((n + 4) % 4)

\* (n + 3) & !3 : clearing the two low bits of n + 3
align_to_multiple_of_four(n) == (n + 3) - ((n + 3) % 4)

\* size_of_val(vertices), for a slice of n vertices
calculate_buffer_length(n) == UMul(n, SizeOfVertex)

\* length of the byte vector to_padded_byte_vector returns for n elements of
\* `size` bytes: one zero byte is pushed while the length is not a multiple of 4
to_padded_byte_vector(n, size) ==
    LET byte_length == UMul(n, size)
        pad == (4 - UMod4(byte_length)) % 4
    IN  UAdd(byte_length, USize(pad))

\* ------------------------------------------------------------- bounds
\* stand-ins for f32::MAX and f32::MIN (3.4028235e38 and its negation): any
\* value beyond every coordinate drawn behaves the same under f32::min / f32::max
F32_MAX == 2147483647

F32_MIN == -F32_MAX

Min2(a, b) == IF a < b THEN a ELSE b

Max2(a, b) == IF a > b THEN a ELSE b

\* one iteration of the `for point in points` loop of bounding_coords
BoundsStep(b, point) ==
    LET p == point.position
    IN  << <<Min2(b[1][1], p[1]), Min2(b[1][2], p[2]), Min2(b[1][3], p[3])>>,
           <<Max2(b[2][1], p[1]), Max2(b[2][2], p[2]), Max2(b[2][3], p[3])>> >>

RECURSIVE BoundsScan(_, _, _, _)
\* the iterations lo..hi of the loop, in order, from <<min, max>> = b.  The range
\* is run as two halves, and the comparison makes the evaluator finish the
\* first half before it starts the second, so the evaluation nests
\* log(hi - lo) deep instead of once per vertex.
BoundsScan(points, lo, hi, b) ==
    IF lo > hi THEN b
    ELSE IF lo = hi THEN BoundsStep(b, points[lo])
    ELSE LET mid == (lo + hi) \div 2
             half == BoundsScan(points, lo, mid, b)
         IN  IF half = b
                THEN BoundsScan(points, mid + 1, hi, b)
                ELSE BoundsScan(points, mid + 1, hi, half)

bounding_coords(points) ==
    BoundsScan(points, 1, Len(points),
               << <<F32_MAX, F32_MAX, F32_MAX>>, <<F32_MIN, F32_MIN, F32_MIN>> >>)

\* ------------------------------------------------------------- state
VARIABLES
    src,          \* "image": the pipeline of main; "slice": a caller hands a vertex slice to the library
    image,        \* the decoded image: width, height, data[<<x, y>>] (RGBA)
    z_height,     \* the height argument
    pc,           \* "scan", "root", "glb", "done"
    x, y,         \* loop variables of image_to_vertices
    vertices,     \* the Vec<Vertex> image_to_vertices builds
    emitted,      \* history: one entry <<x, y, face>> per run of the `for face in faces` body
    slice_len,    \* src = "slice": the slice is slice_len copies of SliceVertex
    uri_arg,      \* the uri argument of create_gltf_root
    root,         \* the gltf::json::Root of create_gltf_root
    json_len,     \* json_string.len() in create_glb
    json_offset,  \* the local json_offset of create_glb after alignment
    result,       \* outcome of create_glb: "Ok", "SizeError", "SerializationError"
    glb           \* the Glb returned when result = "Ok"

vars == <<src, image, z_height, pc, x, y, vertices, emitted, slice_len, uri_arg,
          root, json_len, json_offset, result, glb>>

None == "None"

Heights == 1..MaxHeight

JsonLens == (MaxJsonLen - 7)..MaxJsonLen

SliceLens == (SliceBase - 1)..(SliceBase + 1)

Uris == {None, "buffer0.bin"}

\* the vertex a caller-built slice repeats
SliceVertex == Vertex(<<0, 0, 0>>, <<0, 0, 1>>, ColorOf(<<255, 0, 0>>))

Images ==
    UNION { { [width |-> w, height |-> h, data |-> d] :
                d \in [ (0..(w - 1)) \X (0..(h - 1)) -> PixelKinds ] } :
            <<w, h>> \in { wh \in (0..MaxDim) \X (0..MaxDim) : wh[1] * wh[2] <= MaxPixels } }

\* vertices.len() as create_gltf_root and create_glb see it
VertexCount == IF src = "slice" THEN slice_len ELSE Len(vertices)

\* what bounding_coords scans: n copies of a vertex have the bounds of one
VertexPoints == IF src = "slice" THEN <<SliceVertex>> ELSE vertices

Init ==
    /\ src \in {"image", "slice"}
    /\ IF src = "image"
          THEN /\ image \in Images
               /\ z_height \in Heights
               /\ pc = "scan"
               /\ slice_len = 0
          ELSE /\ image = [width |-> 0, height |-> 0, data |-> << >>]
               /\ z_height = 1
               /\ pc = "root"
               /\ slice_len \in SliceLens
    /\ x = 0
    /\ y = 0
    /\ vertices = << >>
    /\ emitted = << >>
    /\ uri_arg = None
    /\ root = None
    /\ json_len = 0
    /\ json_offset = 0
    /\ result = None
    /\ glb = None

\* ------------------------------------------------------------- image_to_vertices
RECURSIVE ExtendFaces(_, _, _, _, _, _)
\* the `for face in faces` loop: vertices.extend(create_pixel_verticies_face(..))
ExtendFaces(vs, faces, i, pos, pixel, h) ==
    IF i > Len(faces) THEN vs
    ELSE ExtendFaces(vs \o create_pixel_verticies_face(pos, pixel, h, faces[i]),
                     faces, i + 1, pos, pixel, h)

\* both `for` loops of image_to_vertices have run out
ScanFinished == image.width = 0 \/ y >= image.height

\* one iteration of the inner loop of image_to_vertices, at (x, y)
ScanPixel ==
    /\ pc = "scan"
    /\ ~ScanFinished
    /\ LET pixel == to_rgb(get_pixel(image, x, y))
       IN  IF pixel = Black
              THEN UNCHANGED <<vertices, emitted>>
              ELSE LET faces == cull_faces(image, <<x, y>>)
                   IN  /\ vertices' = ExtendFaces(vertices, faces, 1, <<x, y>>, pixel, z_height)
                       /\ emitted' = emitted \o [i \in 1..Len(faces) |-> <<x, y, faces[i]>>]
    /\ IF x + 1 < image.width
          THEN x' = x + 1 /\ y' = y
          ELSE x' = 0 /\ y' = y + 1
    /\ UNCHANGED <<src, image, z_height, pc, slice_len, uri_arg, root, json_len,
                   json_offset, result, glb>>

\* image_to_vertices returns the vector
ScanReturn ==
    /\ pc = "scan"
    /\ ScanFinished
    /\ pc' = "root"
    /\ UNCHANGED <<src, image, z_height, x, y, vertices, emitted, slice_len, uri_arg,
                   root, json_len, json_offset, result, glb>>

\* ------------------------------------------------------------- create_gltf_root
Accessor(offset, n, min, max) ==
    [buffer_view |-> 0, byte_offset |-> offset, count |-> n,
     component_type |-> "F32", type_ |-> "Vec3", min |-> min, max |-> max]

\* create_accessors with the colour accessor at the normal accessor's offset
create_accessors_color_at_normal(n, points) ==
    LET mm == bounding_coords(points)
    IN  << Accessor(0, n, mm[1], mm[2]),
           Accessor(3 * SizeOfF32, n, <<-1, -1, -1>>, <<1, 1, 1>>),
           Accessor(3 * SizeOfF32, n, None, None) >>

\* the three accessors pushed by create_accessors, in push order
create_accessors(n, points) ==
    LET mm == bounding_coords(points)
    IN  << Accessor(0, n, mm[1], mm[2]),
           Accessor(3 * SizeOfF32, n, <<-1, -1, -1>>, <<1, 1, 1>>),
           Accessor(6 * SizeOfF32, n, None, None) >>

RootOf(n, points, uri) ==
    LET vertex_buffer_length == calculate_buffer_length(n)
    IN  [ buffers   |-> << [byte_length |-> vertex_buffer_length, uri |-> uri] >>,
          views     |-> << [buffer |-> 0, byte_length |-> vertex_buffer_length,
                            byte_offset |-> None, byte_stride |-> SizeOfVertex,
                            target |-> "ArrayBuffer"] >>,
          accessors |-> create_accessors(n, points),
          meshes    |-> << [primitives |->
                             << [attributes |-> [POSITION |-> 0, NORMAL |-> 1, COLOR_0 |-> 2],
                                 indices |-> None, mode |-> "Triangles"] >>] >>,
          nodes     |-> << [mesh |-> 0] >>,
          scenes    |-> << [nodes |-> <<0>>] >> ]

create_gltf_root(uri) ==
    /\ pc = "root"
    /\ uri_arg' = uri
    /\ root' = RootOf(VertexCount, VertexPoints, uri)
    /\ pc' = "glb"
    /\ UNCHANGED <<src, image, z_height, x, y, vertices, emitted, slice_len,
                   json_len, json_offset, result, glb>>

\* ------------------------------------------------------------- create_glb
\* `len` is the byte length of the text the serializer produced
create_glb_serialized(len) ==
    LET offset == align_to_multiple_of_four(len)
        length == UAdd(USize(offset), calculate_buffer_length(VertexCount))
    IN  /\ json_len' = len
        /\ json_offset' = offset
        /\ IF TryIntoU32Ok(length)
              THEN /\ result' = "Ok"
                   /\ glb' = [ header |-> [magic |-> "glTF", version |-> 2, length |-> length],
                               bin    |-> [is_some |-> TRUE,
                                           len |-> to_padded_byte_vector(VertexCount, SizeOfVertex)],
                               json   |-> [len |-> len] ]
              ELSE /\ result' = "SizeError"
                   /\ glb' = None

\* json::serialize::to_string(&root)? returned an error
create_glb_serialize_failed ==
    /\ result' = "SerializationError"
    /\ UNCHANGED <<json_len, json_offset, glb>>

create_glb ==
    /\ pc = "glb"
    /\ \/ \E len \in JsonLens : create_glb_serialized(len)
       \/ create_glb_serialize_failed
    /\ pc' = "done"
    /\ UNCHANGED <<src, image, z_height, x, y, vertices, emitted, slice_len, uri_arg, root>>

Next ==
    \/ ScanPixel
    \/ ScanReturn
    \/ \E uri \in Uris : create_gltf_root(uri)
    \/ create_glb

Spec == Init /\ [][Next]_vars

\* ------------------------------------------------------------- vocabulary of the properties
Xs == 0..(image.width - 1)

Ys == 0..(image.height - 1)

\* the scan's classification of pixel (px, py)
Solid(px, py) == to_rgb(get_pixel(image, px, py)) # Black

\* the classification the neighbour lookups use
Empty(px, py) == is_empty_pixel(to_rgb(get_pixel(image, px, py)))

\* the scan has been through pixel (px, py)
Visited(px, py) == py < y \/ (py = y /\ px < x)

EmittedFace(px, py, f) == \E i \in 1..Len(emitted) : emitted[i] = <<px, py, f>>

SolidPixels == { p \in Xs \X Ys : Solid(p[1], p[2]) }

\* ordered pairs (solid pixel, solid lateral neighbour)
SolidPairs ==
    { pq \in SolidPixels \X SolidPixels :
        \/ (pq[1][2] = pq[2][2] /\ (pq[1][1] - pq[2][1]) \in {-1, 1})
        \/ (pq[1][1] = pq[2][1] /\ (pq[1][2] - pq[2][2]) \in {-1, 1}) }

Scanned == src = "image" /\ pc # "scan"

\* C1: every visited solid pixel has each lateral face exactly when it is on the
\* image boundary on that side or its neighbour on that side is empty; the scan
\* ends with 6 faces per solid pixel minus one per (solid pixel, solid lateral
\* neighbour) pair.
C1_CullRule ==
    /\ \A px \in Xs, py \in Ys :
         (Visited(px, py) /\ Solid(px, py)) =>
            /\ EmittedFace(px, py, "Left")    <=> (px = 0 \/ Empty(px - 1, py))
            /\ EmittedFace(px, py, "Right")   <=> (px = image.width - 1 \/ Empty(px + 1, py))
            /\ EmittedFace(px, py, "Forward") <=> (py = 0 \/ Empty(px, py - 1))
            /\ EmittedFace(px, py, "Back")    <=> (py = image.height - 1 \/ Empty(px, py + 1))
    /\ Scanned => Len(emitted) = 6 * Cardinality(SolidPixels) - Cardinality(SolidPairs)

\* C2: in a 1-pixel-wide image every solid pixel has both Left and Right, in a
\* 1-pixel-tall image both Forward and Back; a solid 1x1 image with height 2
\* gives 6 faces, 36 vertices and position bounds [0,0,0]..[1,1,2].
C2_OneWideOneTall ==
    /\ \A px \in Xs, py \in Ys :
         (Visited(px, py) /\ Solid(px, py)) =>
            /\ image.width = 1 => (EmittedFace(px, py, "Left") /\ EmittedFace(px, py, "Right"))
            /\ image.height = 1 => (EmittedFace(px, py, "Forward") /\ EmittedFace(px, py, "Back"))
    /\ (Scanned /\ image.width = 1 /\ image.height = 1 /\ z_height = 2
          /\ Cardinality(SolidPixels) = 1) =>
            /\ Len(emitted) = 6
            /\ Len(vertices) = 36
            /\ pc \in {"glb", "done"} =>
                 /\ root.accessors[1].min = <<0, 0, 0>>
                 /\ root.accessors[1].max = <<1, 1, 2>>

AllTransparent == \A px \in Xs, py \in Ys : get_pixel(image, px, py)[4] = 0

\* C3: an image whose pixels all have alpha 0 gives zero vertices, and (when the
\* serializer itself does not fail) create_glb returns a container whose three
\* accessors have count 0.
C3_TransparentImageIsEmpty ==
    (Scanned /\ AllTransparent) =>
        /\ Len(vertices) = 0
        /\ (pc = "done" /\ result # "SerializationError") =>
              /\ result = "Ok"
              /\ \A i \in 1..3 : root.accessors[i].count = 0

\* round a byte count up to a multiple of 4
RoundUp4(a) == UAdd(a, USize((4 - UMod4(a)) % 4))

\* the 12-byte header: magic [u8; 4], version u32, length u32
HeaderSize == 4 + 4 + 4

\* padded metadata length + padded payload length + header size
TotalLength ==
    UAdd(UAdd(RoundUp4(USize(json_len)), RoundUp4(UMul(VertexCount, SizeOfVertex))),
         USize(HeaderSize))

\* C4: when create_glb succeeds the header's length is padded metadata length +
\* padded payload length + 12.
C4_HeaderLength ==
    (pc = "done" /\ result = "Ok") => glb.header.length = TotalLength

\* C5: when serialization succeeds, create_glb returns SizeError (and no
\* container) exactly when the total container length exceeds u32::MAX.
C5_SizeError ==
    (pc = "done" /\ result # "SerializationError") =>
        /\ result = "SizeError" <=> ~ULeq(TotalLength, U32_MAX)
        /\ result = "SizeError" => glb = None
        /\ result \in {"Ok", "SizeError"}

Sentinel(v) == \E k \in 1..3 : v[k] \in {F32_MAX, F32_MIN}

\* C6: with no vertices the position bounds are a degenerate box with
\* min <= max and no sentinel value; with vertices they are the per-axis
\* minimum and maximum of the positions.
C6_Bounds ==
    pc \in {"glb", "done"} =>
        LET min == root.accessors[1].min
            max == root.accessors[1].max
        IN  IF VertexCount = 0
               THEN /\ \A k \in 1..3 : min[k] <= max[k]
                    /\ ~Sentinel(min) /\ ~Sentinel(max)
               ELSE \A k \in 1..3 :
                      /\ \A i \in 1..Len(VertexPoints) :
                            min[k] <= VertexPoints[i].position[k]
                            /\ VertexPoints[i].position[k] <= max[k]
                      /\ \E i \in 1..Len(VertexPoints) : VertexPoints[i].position[k] = min[k]
                      /\ \E i \in 1..Len(VertexPoints) : VertexPoints[i].position[k] = max[k]

\* C7: the buffer record carries the uri argument; a container built from a
\* root with a uri has no binary chunk, one built from a root without has it.
C7_ExternalPayload ==
    /\ pc \in {"glb", "done"} => root.buffers[1].uri = uri_arg
    /\ (pc = "done" /\ result = "Ok") =>
          glb.bin.is_some <=> (root.buffers[1].uri = None)

\* ------------------------------------------------------------- faces in the vertex buffer
\* the i-th aligned block of 6 vertices
Block(i) == SubSeq(vertices, 6 * (i - 1) + 1, 6 * i)

\* the canonical axis-unit normal of each face kind
FaceNormal(f) ==
    CASE f = "Up"      -> <<0, 0, 1>>
      [] f = "Down"    -> <<0, 0, -1>>
      [] f = "Left"    -> <<-1, 0, 0>>
      [] f = "Right"   -> <<1, 0, 0>>
      [] f = "Forward" -> <<0, -1, 0>>
      [] f = "Back"    -> <<0, 1, 0>>

Sub(a, b) == <<a[1] - b[1], a[2] - b[2], a[3] - b[3]>>

Cross(a, b) ==
    <<a[2] * b[3] - a[3] * b[2], a[3] * b[1] - a[1] * b[3], a[1] * b[2] - a[2] * b[1]>>

Dot(a, b) == a[1] * b[1] + a[2] * b[2] + a[3] * b[3]

\* (v1 - v0) x (v2 - v0) is a positive multiple of the axis-unit vector n
WindsAlong(v0, v1, v2, n) ==
    LET c == Cross(Sub(v1.position, v0.position), Sub(v2.position, v0.position))
        k == Dot(c, n)
    IN  k > 0 /\ c = <<k * n[1], k * n[2], k * n[3]>>

\* C8: every face written (any kind, any pixel, any height drawn, all > 0) is
\* exactly 6 vertices that carry the face's canonical normal, and both of its
\* triangles wind along that normal.
C8_NormalsAndWinding ==
    /\ Len(vertices) = 6 * Len(emitted)
    /\ \A i \in 1..Len(emitted) :
          LET b == Block(i)
              n == FaceNormal(emitted[i][3])
          IN  /\ \A k \in 1..6 : b[k].normal = n
              /\ WindsAlong(b[1], b[2], b[3], n)
              /\ WindsAlong(b[4], b[5], b[6], n)

\* all six face kinds are in the buffer
C8_Witness == \A f \in Faces : \E i \in 1..Len(emitted) : emitted[i][3] = f

\* C9: the payload has 36 bytes per vertex, a multiple of 4, the length
\* calculate_buffer_length reported to create_gltf_root (no padding byte), and
\* the metadata length used is the least multiple of 4 >= the text's length.
C9_PaddedLengths ==
    /\ (pc = "done" /\ result = "Ok") =>
          /\ UMod4(glb.bin.len) = 0
          /\ glb.bin.len = UMul(VertexCount, 36)
          /\ glb.bin.len = root.buffers[1].byte_length
    /\ (pc = "done" /\ result \in {"Ok", "SizeError"}) =>
          /\ json_offset % 4 = 0
          /\ json_offset >= json_len
          /\ json_offset - json_len < 4

\* a container for a non-empty mesh whose metadata needed padding
C9_Witness ==
    /\ pc = "done" /\ result = "Ok"
    /\ src = "image" /\ Len(vertices) > 0
    /\ json_len % 4 # 0 /\ json_offset > json_len

IsPrefix(a, b) == Len(a) <= Len(b) /\ SubSeq(b, 1, Len(a)) = a

\* position of a pixel in the row-major scan
ScanIndex(e) == e[2] * image.width + e[1]

\* Up, Down, the x-axis faces, the y-axis faces
FaceGroup(f) ==
    CASE f = "Up" -> 0
      [] f = "Down" -> 1
      [] f \in {"Left", "Right"} -> 2
      [] f \in {"Forward", "Back"} -> 3

\* the i-th block is one face of the solid pixel emitted[i] names
BlockOfPixelFace(i) ==
    LET b == Block(i)
        px == emitted[i][1]
        py == emitted[i][2]
        n == b[1].normal
    IN  /\ px \in Xs /\ py \in Ys /\ Solid(px, py)
        /\ \A k \in 1..6 :
              /\ b[k].normal = n
              /\ b[k].color = ColorOf(to_rgb(get_pixel(image, px, py)))
              /\ b[k].position[1] \in {px, px + 1}
              /\ b[k].position[2] \in {py, py + 1}
              /\ b[k].position[3] \in {0, z_height}
              /\ Dot(b[k].position, n) = Dot(b[1].position, n)
        /\ Dot(n, n) = 1

C10_Blocks ==
    /\ Len(vertices) = 6 * Len(emitted)
    /\ \A i \in 1..Len(emitted) : BlockOfPixelFace(i)
    /\ \A i, j \in 1..Len(emitted) :
          i < j =>
             /\ ScanIndex(emitted[i]) <= ScanIndex(emitted[j])
             /\ ScanIndex(emitted[i]) = ScanIndex(emitted[j]) =>
                   /\ FaceGroup(emitted[i][3]) <= FaceGroup(emitted[j][3])
                   /\ emitted[i][3] # emitted[j][3]

\* C10: the vertex buffer only grows by appending; at every point of the scan
\* it is a sequence of 6-vertex blocks, each one face (one normal, one colour)
\* of one solid pixel, the blocks of earlier pixels of the row-major scan first,
\* and within a pixel Up, Down, the x-axis faces, the y-axis faces.
C10_AppendOnlyScanOrder ==
    /\ []C10_Blocks
    /\ [][IsPrefix(vertices, vertices')]_vars

\* the scan has written faces of pixels of two rows, one with an x- and a y-axis face
C10_Witness ==
    /\ \E i, j \in 1..Len(emitted) : emitted[i][2] < emitted[j][2]
    /\ \E i, j \in 1..Len(emitted) :
          /\ emitted[i][1] = emitted[j][1] /\ emitted[i][2] = emitted[j][2]
          /\ FaceGroup(emitted[i][3]) = 2 /\ FaceGroup(emitted[j][3]) = 3

\* ------------------------------------------------------------- layout of the root
\* bytes one accessor element (Vec3 of F32) covers
AttributeSize == 3 * 4

\* the byte ranges of accessors i and j inside one record do not overlap
Disjoint(i, j) ==
    \/ root.accessors[i].byte_offset + AttributeSize <= root.accessors[j].byte_offset
    \/ root.accessors[j].byte_offset + AttributeSize <= root.accessors[i].byte_offset

\* C11: the root has exactly one buffer and one bufferView of byteLength 36n
\* and stride 36, and three accessors on that view with count n at byte offsets
\* 0, 12 and 24; their 12-byte ranges are disjoint and inside the 36-byte
\* record, and for n >= 1 the last byte an accessor reads,
\* offset + 36(n - 1) + 12, is within the buffer.  The only primitive names
\* them POSITION, NORMAL and COLOR, has no indices and is a triangle list.
C11_RootLayout ==
    pc \in {"glb", "done"} =>
        LET n == VertexCount
            acc == root.accessors
            prim == root.meshes[1].primitives[1]
        IN  /\ Len(root.buffers) = 1 /\ Len(root.views) = 1
            /\ root.buffers[1].byte_length = UMul(n, 36)
            /\ root.views[1].byte_length = UMul(n, 36)
            /\ root.views[1].buffer = 0
            /\ root.views[1].byte_stride = 36
            /\ Len(acc) = 3
            /\ \A i \in 1..3 : acc[i].count = n /\ acc[i].buffer_view = 0
            /\ acc[1].byte_offset = 0 /\ acc[2].byte_offset = 12 /\ acc[3].byte_offset = 24
            /\ Disjoint(1, 2) /\ Disjoint(1, 3) /\ Disjoint(2, 3)
            /\ \A i \in 1..3 :
                  /\ acc[i].byte_offset + AttributeSize <= root.views[1].byte_stride
                  /\ n >= 1 =>
                       ULeq(UAdd(UMul(n - 1, 36), USize(acc[i].byte_offset + AttributeSize)),
                            root.buffers[1].byte_length)
            /\ Len(root.meshes) = 1 /\ Len(root.meshes[1].primitives) = 1
            /\ DOMAIN prim.attributes = {"POSITION", "NORMAL", "COLOR_0"}
            /\ prim.attributes.POSITION = 0
            /\ prim.attributes.NORMAL = 1
            /\ prim.attributes.COLOR_0 = 2
            /\ prim.indices = None
            /\ prim.mode = "Triangles"

\* a root built for the non-empty mesh of an image
C11_Witness == pc \in {"glb", "done"} /\ src = "image" /\ Len(vertices) >= 6

\* ------------------------------------------------------------- culling safety
\* the in-image neighbour a lateral face of pixel (px, py) points at, if any
FacedNeighbours(px, py, f) ==
    CASE f = "Left"    -> IF px > 0 THEN {<<px - 1, py>>} ELSE {}
      [] f = "Right"   -> IF px < image.width - 1 THEN {<<px + 1, py>>} ELSE {}
      [] f = "Forward" -> IF py > 0 THEN {<<px, py - 1>>} ELSE {}
      [] f = "Back"    -> IF py < image.height - 1 THEN {<<px, py + 1>>} ELSE {}
      [] OTHER         -> {}

\* C12: no face written points at a solid in-image neighbour, no face is
\* written for a pixel the scan classifies empty, no face kind is written twice
\* for a pixel, and the neighbour lookups classify every pixel as the scan does
\* (empty exactly when its RGB, alpha dropped, is pure black).
C12_CullingSafety ==
    /\ Len(vertices) = 6 * Len(emitted)
    /\ \A i \in 1..Len(emitted) :
          LET px == emitted[i][1]
              py == emitted[i][2]
          IN  /\ px \in Xs /\ py \in Ys
              /\ Solid(px, py)
              /\ \A q \in FacedNeighbours(px, py, emitted[i][3]) : ~Solid(q[1], q[2])
    /\ \A i, j \in 1..Len(emitted) : i # j => emitted[i] # emitted[j]
    /\ \A px \in Xs, py \in Ys :
          /\ Empty(px, py) <=> ~Solid(px, py)
          /\ Empty(px, py) <=> (get_pixel(image, px, py)[1] = 0
                                /\ get_pixel(image, px, py)[2] = 0
                                /\ get_pixel(image, px, py)[3] = 0)

\* the scan has been through a solid pixel inside a row whose right neighbour
\* is solid, and the lookup held back its Right face
C12_Witness ==
    \E px \in Xs, py \in Ys :
        /\ Visited(px, py) /\ Solid(px, py)
        /\ 0 < px /\ px < image.width - 1
        /\ Solid(px + 1, py)
        /\ ~EmittedFace(px, py, "Right")
        /\ EmittedFace(px, py, "Up")

====
